---- MODULE Spec2Model ----
(***************************************************************************)
(* State-machine model of the pan-backend authentication surface           *)
(* (auth_routes.py) and booking workflow (routes.py, email_service.py).    *)
(*                                                                         *)
(* A request handler is a coroutine: it yields only at an `await`.  Each   *)
(* action below is one atomic slice of a handler: the effect of one        *)
(* awaited store call together with the synchronous code that follows it   *)
(* up to the next await (or up to the response).                           *)
(***************************************************************************)
EXTENDS Integers, Sequences, FiniteSets, TLC

VARIABLES
    admin_users,    \* admin_users_collection: sequence of documents, in insertion order
    bookings,       \* bookings_collection: sequence of documents, in insertion order
    req,            \* req[r]: the request in slot r (operation, position, arguments, local, response)
    wallet,         \* bearer tokens issued by login and still held by clients
    now,            \* the clock (datetime.utcnow), in minutes
    notify_log,     \* ids of the enquiries send_booking_notification was called for
    busy            \* the slot whose synchronous call holds the event loop, or 0

vars == <<admin_users, bookings, req, wallet, now, notify_log, busy>>

---------------------------------------------------------------------------
(* Bounds of the model *)

NReqs == 2          \* request slots (requests that can be in flight together)
MaxAccounts == 2    \* accounts the store can hold
MaxBookings == 2    \* enquiries the store can hold
MaxTokens == 1      \* tokens the clients keep
MaxTicks == 2       \* clock ticks
NSalts == 2         \* distinct salts the hasher can draw
TickMinutes == 720  \* minutes per clock tick

(* Program constants *)

ACCESS_TOKEN_EXPIRE_MINUTES == 1440   \* timedelta(minutes=1440)
MIN_PASSWORD_LENGTH == 6              \* len(new_password) < 6

Reqs == 1..NReqs
Salts == 1..NSalts
Usernames == {"alice", "bob"}
Emails == {"a@pan.org", "b@pan.org"}
Passwords == {"secret1", "secret2", "short"}
FullNames == {"None"}
NoVal == [none |-> TRUE]

---------------------------------------------------------------------------
(* The document store (motor collection), as the handlers use it *)

\* find_one({field: value}): the first matching document, or NoVal (None)
RECURSIVE FirstIndex(_, _, _, _)
FirstIndex(coll, field, value, i) ==
    IF i > Len(coll) THEN 0
    ELSE IF coll[i][field] = value THEN i
    ELSE FirstIndex(coll, field, value, i + 1)

find_one(coll, field, value) ==
    LET i == FirstIndex(coll, field, value, 1)
    IN IF i = 0 THEN NoVal ELSE coll[i]

Found(doc) == doc # NoVal

\* insert_one(doc): the store assigns _id and appends
insert_one(coll, doc) ==
    Append(coll, doc @@ [_id |-> Len(coll) + 1])

\* update_one({field: value}, {"$set": changes}): the first matching document only
update_one(coll, field, value, changes) ==
    LET i == FirstIndex(coll, field, value, 1)
    IN IF i = 0 THEN coll
       ELSE [coll EXCEPT ![i] = changes @@ coll[i]]

\* dict.pop(key, None)
Pop(doc, key) == [k \in (DOMAIN doc) \ {key} |-> doc[k]]

\* dict.get(key, default)
Get(doc, key, default) == IF key \in DOMAIN doc THEN doc[key] ELSE default

---------------------------------------------------------------------------
(* auth.py: password hasher and token service *)

\* the digest of a plaintext under a salt: one-way, so only comparable
Digest(salt, plaintext) == <<salt, plaintext>>

get_password_hash(plaintext, salt) ==
    [salt |-> salt, digest |-> Digest(salt, plaintext)]

verify_password(plaintext, hashed) ==
    /\ DOMAIN hashed = {"salt", "digest"}
    /\ hashed.digest = Digest(hashed.salt, plaintext)

create_access_token(data, expires_delta, t) ==
    [sub |-> data.sub, user_id |-> data.user_id, exp |-> t + expires_delta,
     sig |-> "server"]

NoToken == [sub |-> "", user_id |-> 0, exp |-> 0, sig |-> "absent"]
ForgedToken == [sub |-> "alice", user_id |-> 1,
                exp |-> (MaxTicks + 1) * TickMinutes + ACCESS_TOKEN_EXPIRE_MINUTES,
                sig |-> "forged"]

\* Token Service verify: signature first, then expiry
TokenValid(tok, t) == tok.sig = "server" /\ t < tok.exp

---------------------------------------------------------------------------
(* Responses *)

HTTPException(code, detail) == [status |-> code, detail |-> detail]
HTTPExceptionH(code, detail, headers) ==
    [status |-> code, detail |-> detail, headers |-> headers]
Response(code, body) == [status |-> code, body |-> body]
Bearer == [WWW_Authenticate |-> "Bearer"]
NoResp == [status |-> 0]

Idle == [op |-> "none", pc |-> "idle", args |-> NoVal, local |-> NoVal, resp |-> NoResp]
InFlight(r) == req[r].pc # "idle"
Free(r) == req[r].pc = "idle" /\ busy = 0

Begin(r, op, pc, args, user) ==
    req' = [req EXCEPT ![r] = [op |-> op, pc |-> pc, args |-> args,
                               local |-> user, resp |-> NoResp]]
Finish(r, op, args, resp) ==
    req' = [req EXCEPT ![r] = [op |-> op, pc |-> "done", args |-> args,
                               local |-> NoVal, resp |-> resp]]

\* the response leaves the server and the slot is free again
respond(r) ==
    /\ req[r].pc = "done" /\ busy = 0
    /\ req' = [req EXCEPT ![r] = Idle]
    /\ UNCHANGED <<admin_users, bookings, wallet, now, notify_log, busy>>

---------------------------------------------------------------------------
(* models.py *)

\* AdminUserCreate keeping the undeclared fields of the payload
AdminUserCreate_extra_allowed(payload) == payload

\* AdminUserCreate(**payload): the declared fields only
AdminUserCreate(payload) ==
    [username |-> payload.username, email |-> payload.email,
     password |-> payload.password, full_name |-> payload.full_name]

\* AdminUser(**admin_dict): id, is_active, is_superuser, created_at by default
\* unless given
AdminUser(admin_dict, fresh_id, t) ==
    [id |-> Get(admin_dict, "id", fresh_id), username |-> admin_dict.username,
     email |-> admin_dict.email,
     hashed_password |-> admin_dict.hashed_password,
     full_name |-> admin_dict.full_name,
     is_active |-> Get(admin_dict, "is_active", TRUE),
     is_superuser |-> Get(admin_dict, "is_superuser", FALSE),
     created_at |-> Get(admin_dict, "created_at", t)]

\* response_model=AdminUser: the response carries every field of the model
AdminUserResponse(obj) ==
    [id |-> obj.id, username |-> obj.username, email |-> obj.email,
     hashed_password |-> obj.hashed_password, full_name |-> obj.full_name,
     is_active |-> obj.is_active, is_superuser |-> obj.is_superuser,
     created_at |-> obj.created_at]

\* uuid.uuid4(): a value no stored document carries
FreshId(coll) == Len(coll) + 1

RegisterPayloads ==
    [username : Usernames, email : Emails, password : {"secret1"},
     full_name : FullNames]
    \cup [username : {"bob"}, email : {"b@pan.org"}, password : {"secret1"},
          full_name : FullNames, is_superuser : {TRUE}, is_active : {FALSE}]

---------------------------------------------------------------------------
(* auth.py: get_current_user, the dependency of every protected route *)

\* the caller identity, or the error the gate answers with
get_current_user(tok, users, t) ==
    IF tok.sig = "absent"
    THEN [ok |-> FALSE, resp |-> HTTPExceptionH(401, "Not authenticated", Bearer)]
    ELSE IF ~TokenValid(tok, t)
    THEN [ok |-> FALSE,
          resp |-> HTTPExceptionH(401, "Could not validate credentials", Bearer)]
    ELSE LET user == find_one(users, "username", tok.sub)
         IN IF ~Found(user)
            THEN [ok |-> FALSE, resp |-> HTTPException(404, "User not found")]
            ELSE [ok |-> TRUE, user |-> Pop(user, "hashed_password")]

BearerTokens == wallet \cup {NoToken, ForgedToken}

\* a protected route starts: the gate runs, then the handler body at pc
Authenticate(r, op, pc, args) ==
    /\ Free(r)
    /\ \E tok \in BearerTokens :
          LET auth == get_current_user(tok, admin_users, now)
              a == args @@ [token |-> tok]
          IN IF auth.ok
             THEN Begin(r, op, pc, a, auth.user)
             ELSE Finish(r, op, a, auth.resp)
    /\ UNCHANGED <<admin_users, bookings, wallet, now, notify_log, busy>>

---------------------------------------------------------------------------
(* auth_routes.py: register_admin *)

PendingRegistrations == Cardinality({q \in Reqs : req[q].op = "register" /\ InFlight(q)})

\* register_admin_find_username without the username check
register_admin_find_username_unchecked(r) ==
    /\ Free(r)
    /\ Len(admin_users) + PendingRegistrations < MaxAccounts
    /\ \E payload \in RegisterPayloads :
          Begin(r, "register", "reg_find_email", AdminUserCreate(payload), NoVal)
    /\ UNCHANGED <<admin_users, bookings, wallet, now, notify_log, busy>>

\* lines 20-25: the username check
register_admin_find_username(r) ==
    /\ Free(r)
    /\ Len(admin_users) + PendingRegistrations < MaxAccounts
    /\ \E payload \in RegisterPayloads :
          LET user == AdminUserCreate(payload)
              existing == find_one(admin_users, "username", user.username)
          IN IF Found(existing)
             THEN Finish(r, "register", user,
                         HTTPException(400, "Username already registered"))
             ELSE Begin(r, "register", "reg_find_email", user, NoVal)
    /\ UNCHANGED <<admin_users, bookings, wallet, now, notify_log, busy>>

\* register_admin_find_email without the email check
register_admin_find_email_unchecked(r) ==
    /\ req[r].pc = "reg_find_email" /\ busy = 0
    /\ Begin(r, "register", "reg_insert", req[r].args, NoVal)
    /\ UNCHANGED <<admin_users, bookings, wallet, now, notify_log, busy>>

\* register_admin_find_email answering with the username message
register_admin_find_email_wrong_detail(r) ==
    /\ req[r].pc = "reg_find_email" /\ busy = 0
    /\ LET user == req[r].args
           existing_email == find_one(admin_users, "email", user.email)
       IN IF Found(existing_email)
          THEN Finish(r, "register", user,
                      HTTPException(400, "Username already registered"))
          ELSE Begin(r, "register", "reg_insert", user, NoVal)
    /\ UNCHANGED <<admin_users, bookings, wallet, now, notify_log, busy>>

\* lines 28-33: the email check
register_admin_find_email(r) ==
    /\ req[r].pc = "reg_find_email" /\ busy = 0
    /\ LET user == req[r].args
           existing_email == find_one(admin_users, "email", user.email)
       IN IF Found(existing_email)
          THEN Finish(r, "register", user,
                      HTTPException(400, "Email already registered"))
          ELSE Begin(r, "register", "reg_insert", user, NoVal)
    /\ UNCHANGED <<admin_users, bookings, wallet, now, notify_log, busy>>

\* register_admin_insert over a store with a unique index on username
register_admin_insert_unique(r) ==
    /\ req[r].pc = "reg_insert" /\ busy = 0
    /\ \E salt \in Salts :
          LET user == req[r].args
              admin_dict == Pop(user, "password") @@
                            [hashed_password |-> get_password_hash(user.password, salt)]
              admin_obj == AdminUser(admin_dict, FreshId(admin_users), now)
          IN IF Found(find_one(admin_users, "username", user.username))
             THEN /\ admin_users' = admin_users
                  /\ Finish(r, "register", user,
                            HTTPException(500, "Internal Server Error"))
             ELSE /\ admin_users' = insert_one(admin_users, admin_obj)
                  /\ Finish(r, "register", user,
                            Response(201, AdminUserResponse(admin_obj)))
    /\ UNCHANGED <<bookings, wallet, now, notify_log, busy>>

\* lines 36-41: hash, construct, insert, answer
register_admin_insert(r) ==
    /\ req[r].pc = "reg_insert" /\ busy = 0
    /\ \E salt \in Salts :
          LET user == req[r].args
              admin_dict == Pop(user, "password") @@
                            [hashed_password |-> get_password_hash(user.password, salt)]
              admin_obj == AdminUser(admin_dict, FreshId(admin_users), now)
          IN /\ admin_users' = insert_one(admin_users, admin_obj)
             /\ Finish(r, "register", user, Response(201, AdminUserResponse(admin_obj)))
    /\ UNCHANGED <<bookings, wallet, now, notify_log, busy>>

---------------------------------------------------------------------------
(* auth_routes.py: login *)

Credentials == [username : Usernames, password : Passwords]

\* login_response with the active flag checked before the password
login_response_active_first(credentials, users, t) ==
    LET user == find_one(users, "username", credentials.username)
    IN IF ~Found(user)
       THEN HTTPExceptionH(401, "Incorrect username or password", Bearer)
       ELSE IF ~Get(user, "is_active", TRUE)
       THEN HTTPException(400, "Inactive user")
       ELSE IF ~verify_password(credentials.password, user.hashed_password)
       THEN HTTPExceptionH(401, "Incorrect username or password", Bearer)
       ELSE Response(200,
               [access_token |->
                    create_access_token([sub |-> user.username, user_id |-> user.id],
                                        ACCESS_TOKEN_EXPIRE_MINUTES, t),
                token_type |-> "bearer"])

\* login_response treating a record without the is_active flag as inactive
login_response_flag_required(credentials, users, t) ==
    LET user == find_one(users, "username", credentials.username)
    IN IF ~Found(user)
       THEN HTTPExceptionH(401, "Incorrect username or password", Bearer)
       ELSE IF ~verify_password(credentials.password, user.hashed_password)
       THEN HTTPExceptionH(401, "Incorrect username or password", Bearer)
       ELSE IF ~Get(user, "is_active", FALSE)
       THEN HTTPException(400, "Inactive user")
       ELSE Response(200,
               [access_token |->
                    create_access_token([sub |-> user.username, user_id |-> user.id],
                                        ACCESS_TOKEN_EXPIRE_MINUTES, t),
                token_type |-> "bearer"])

\* login_response issuing the token with a 30 minute lifetime
login_response_short_lived(credentials, users, t) ==
    LET user == find_one(users, "username", credentials.username)
    IN IF ~Found(user)
       THEN HTTPExceptionH(401, "Incorrect username or password", Bearer)
       ELSE IF ~verify_password(credentials.password, user.hashed_password)
       THEN HTTPExceptionH(401, "Incorrect username or password", Bearer)
       ELSE IF ~Get(user, "is_active", TRUE)
       THEN HTTPException(400, "Inactive user")
       ELSE Response(200,
               [access_token |->
                    create_access_token([sub |-> user.username, user_id |-> user.id],
                                        30, t),
                token_type |-> "bearer"])

\* lines 47-76
login_response(credentials, users, t) ==
    LET user == find_one(users, "username", credentials.username)
    IN IF ~Found(user)
       THEN HTTPExceptionH(401, "Incorrect username or password", Bearer)
       ELSE IF ~verify_password(credentials.password, user.hashed_password)
       THEN HTTPExceptionH(401, "Incorrect username or password", Bearer)
       ELSE IF ~Get(user, "is_active", TRUE)
       THEN HTTPException(400, "Inactive user")
       ELSE Response(200,
               [access_token |->
                    create_access_token([sub |-> user.username, user_id |-> user.id],
                                        ACCESS_TOKEN_EXPIRE_MINUTES, t),
                token_type |-> "bearer"])

login(r) ==
    /\ Free(r)
    /\ \E credentials \in Credentials :
          LET resp == login_response(credentials, admin_users, now)
          IN /\ Finish(r, "login", credentials, resp)
             /\ wallet' = IF resp.status = 200 /\ Cardinality(wallet) < MaxTokens
                          THEN wallet \cup {resp.body.access_token}
                          ELSE wallet
    /\ UNCHANGED <<admin_users, bookings, now, notify_log, busy>>

---------------------------------------------------------------------------
(* auth_routes.py: get_current_user_info (/me) and logout *)

get_current_user_info_auth(r) == Authenticate(r, "me", "me_find", NoVal)

\* lines 81-89
get_current_user_info(r) ==
    /\ req[r].pc = "me_find" /\ busy = 0
    /\ LET user == find_one(admin_users, "username", req[r].local.username)
       IN Finish(r, "me", req[r].args,
                 IF ~Found(user)
                 THEN HTTPException(404, "User not found")
                 ELSE Response(200, Pop(Pop(user, "hashed_password"), "_id")))
    /\ UNCHANGED <<admin_users, bookings, wallet, now, notify_log, busy>>

logout_auth(r) == Authenticate(r, "logout", "logout_body", NoVal)

\* logout deactivating the caller's account
logout_deactivating(r) ==
    /\ req[r].pc = "logout_body" /\ busy = 0
    /\ admin_users' = update_one(admin_users, "username", req[r].local.username,
                                 [is_active |-> FALSE])
    /\ Finish(r, "logout", req[r].args,
              Response(200, [message |-> "Successfully logged out"]))
    /\ UNCHANGED <<bookings, wallet, now, notify_log, busy>>

\* lines 92-94
logout(r) ==
    /\ req[r].pc = "logout_body" /\ busy = 0
    /\ Finish(r, "logout", req[r].args,
              Response(200, [message |-> "Successfully logged out"]))
    /\ UNCHANGED <<admin_users, bookings, wallet, now, notify_log, busy>>

---------------------------------------------------------------------------
(* auth_routes.py: change_password *)

\* new passwords: those of Passwords and one more acceptable value
NewPasswords == Passwords \cup {"secret3"}

PasswordChange == [current_password : Passwords, new_password : NewPasswords]

change_password_auth(r) ==
    \E password_data \in PasswordChange :
        Authenticate(r, "change_password", "cp_find", password_data)

\* change_password_check with the length check ahead of the verification
change_password_check_length_first(password_data, user) ==
    IF ~Found(user)
    THEN HTTPException(404, "User not found")
    ELSE IF Len(password_data.new_password) < MIN_PASSWORD_LENGTH
    THEN HTTPException(400, "New password must be at least 6 characters long")
    ELSE IF ~verify_password(password_data.current_password, user.hashed_password)
    THEN HTTPException(400, "Current password is incorrect")
    ELSE IF password_data.current_password = password_data.new_password
    THEN HTTPException(400, "New password must be different from current password")
    ELSE NoResp

\* lines 107-129: the checks, in the order of the code; NoResp when all pass
change_password_check(password_data, user) ==
    IF ~Found(user)
    THEN HTTPException(404, "User not found")
    ELSE IF ~verify_password(password_data.current_password, user.hashed_password)
    THEN HTTPException(400, "Current password is incorrect")
    ELSE IF Len(password_data.new_password) < MIN_PASSWORD_LENGTH
    THEN HTTPException(400, "New password must be at least 6 characters long")
    ELSE IF password_data.current_password = password_data.new_password
    THEN HTTPException(400, "New password must be different from current password")
    ELSE NoResp

change_password_find(r) ==
    /\ req[r].pc = "cp_find" /\ busy = 0
    /\ LET user == find_one(admin_users, "username", req[r].local.username)
           resp == change_password_check(req[r].args, user)
       IN IF resp = NoResp
          THEN Begin(r, "change_password", "cp_update", req[r].args, req[r].local)
          ELSE Finish(r, "change_password", req[r].args, resp)
    /\ UNCHANGED <<admin_users, bookings, wallet, now, notify_log, busy>>

\* change_password_update hashing the current password instead of the new one
change_password_update_stale(r) ==
    /\ req[r].pc = "cp_update" /\ busy = 0
    /\ \E salt \in Salts :
          LET new_hashed_password == get_password_hash(req[r].args.current_password, salt)
          IN admin_users' = update_one(admin_users, "username", req[r].local.username,
                                       [hashed_password |-> new_hashed_password])
    /\ Finish(r, "change_password", req[r].args,
              Response(200, [message |-> "Password changed successfully"]))
    /\ UNCHANGED <<bookings, wallet, now, notify_log, busy>>

\* change_password_update writing only while the presented current password
\* still verifies against the stored hash
change_password_update_guarded(r) ==
    /\ req[r].pc = "cp_update" /\ busy = 0
    /\ LET user == find_one(admin_users, "username", req[r].local.username)
       IN IF verify_password(req[r].args.current_password, user.hashed_password)
          THEN /\ \E salt \in Salts :
                     admin_users' =
                         update_one(admin_users, "username", req[r].local.username,
                                    [hashed_password |->
                                        get_password_hash(req[r].args.new_password, salt)])
               /\ Finish(r, "change_password", req[r].args,
                         Response(200, [message |-> "Password changed successfully"]))
          ELSE /\ admin_users' = admin_users
               /\ Finish(r, "change_password", req[r].args,
                         HTTPException(400, "Current password is incorrect"))
    /\ UNCHANGED <<bookings, wallet, now, notify_log, busy>>

\* change_password_update with an empty filter: the first account is written
change_password_update_unfiltered(r) ==
    /\ req[r].pc = "cp_update" /\ busy = 0
    /\ Len(admin_users) > 0
    /\ \E salt \in Salts :
          LET new_hashed_password == get_password_hash(req[r].args.new_password, salt)
          IN admin_users' = [admin_users EXCEPT ![1] =
                                [hashed_password |-> new_hashed_password] @@ @]
    /\ Finish(r, "change_password", req[r].args,
              Response(200, [message |-> "Password changed successfully"]))
    /\ UNCHANGED <<bookings, wallet, now, notify_log, busy>>

\* lines 132-138
change_password_update(r) ==
    /\ req[r].pc = "cp_update" /\ busy = 0
    /\ \E salt \in Salts :
          LET new_hashed_password == get_password_hash(req[r].args.new_password, salt)
          IN admin_users' = update_one(admin_users, "username", req[r].local.username,
                                       [hashed_password |-> new_hashed_password])
    /\ Finish(r, "change_password", req[r].args,
              Response(200, [message |-> "Password changed successfully"]))
    /\ UNCHANGED <<bookings, wallet, now, notify_log, busy>>

---------------------------------------------------------------------------
(* models.py: Booking, BookingCreate *)

BookingStatuses == {"pending", "approved", "rejected"}

\* BookingCreate keeping the undeclared fields of the payload
BookingCreate_extra_allowed(payload) == payload

\* BookingCreate(**payload): the declared fields only
BookingCreate(payload) ==
    [name |-> payload.name, email |-> payload.email, phone |-> payload.phone,
     event_type |-> payload.event_type, date |-> payload.date,
     guests |-> payload.guests, message |-> payload.message]

\* Booking(**fields): id, status and created_at by default unless given
Booking(fields, fresh_id, t) ==
    [id |-> Get(fields, "id", fresh_id), name |-> fields.name, email |-> fields.email,
     phone |-> fields.phone, event_type |-> fields.event_type, date |-> fields.date,
     guests |-> fields.guests, message |-> fields.message,
     status |-> Get(fields, "status", "pending"),
     created_at |-> Get(fields, "created_at", t)]

BookingPayloads ==
    [name : {"Ann", "Jan"}, email : {"v@mail.org"}, phone : {"0400"},
     event_type : {"wedding"}, date : {"2026-01-10"}, guests : {80},
     message : {"None"}]
    \cup [name : {"Jan"}, email : {"v@mail.org"}, phone : {"0400"},
          event_type : {"wedding"}, date : {"2026-01-10"}, guests : {80},
          message : {"None"}, status : {"approved"}]

---------------------------------------------------------------------------
(* email_service.py *)

\* lines 14-20: the settings read from the environment; TRUE is a non-empty value.
\* SMTP_PORT has the default 25, the others default to the empty string.
MailSettingNames ==
    {"NOTIFICATION_EMAIL", "SMTP_HOST", "SMTP_PORT", "SMTP_USERNAME",
     "SMTP_PASSWORD", "SMTP_FROM_EMAIL"}

\* every setting present, or exactly one missing
MailSettings ==
    {[n \in MailSettingNames |-> n # missing] :
        missing \in MailSettingNames \cup {"none"}}

\* what the mail server does to each call of one session (lines 57-66):
\* "smtp_error" is an smtplib.SMTPException, "os_error" any other exception
\* (refused or timed out connection, ssl.SSLError in the TLS handshake)
MailServers ==
    [connect : {"ok", "os_error"}, starttls : {"ok", "smtp_error", "os_error"},
     login : {"ok", "auth_error"}, sendmail : {"ok", "smtp_error"},
     quit : {"ok", "smtp_error"}]

HealthyServer ==
    [connect |-> "ok", starttls |-> "ok", login |-> "ok", sendmail |-> "ok",
     quit |-> "ok"]

\* the mail environment of one notification
MailScenarios ==
    {[settings |-> s, server |-> HealthyServer] : s \in MailSettings}
    \cup {[settings |-> [n \in MailSettingNames |-> TRUE], server |-> v] :
             v \in MailServers}

\* the value returned and what happened on the wire
MailResult(ret, connected, handed_over) ==
    [ret |-> ret, connected |-> connected, handed_over |-> handed_over]

\* send_email aborting on every STARTTLS failure
send_email_tls_required(scenario) ==
    LET settings == scenario.settings
        server == scenario.server
    IN IF ~(/\ settings.SMTP_HOST /\ settings.SMTP_USERNAME
            /\ settings.SMTP_PASSWORD /\ settings.SMTP_FROM_EMAIL)
       THEN MailResult(FALSE, FALSE, FALSE)
       ELSE IF server.connect # "ok" THEN MailResult(FALSE, TRUE, FALSE)
       ELSE IF server.starttls # "ok" THEN MailResult(FALSE, TRUE, FALSE)
       ELSE IF server.login # "ok" THEN MailResult(FALSE, TRUE, FALSE)
       ELSE IF server.sendmail # "ok" THEN MailResult(FALSE, TRUE, FALSE)
       ELSE IF server.quit # "ok" THEN MailResult(FALSE, TRUE, TRUE)
       ELSE MailResult(TRUE, TRUE, TRUE)

\* lines 23-79: False when a required setting is empty (36-38); otherwise connect,
\* STARTTLS with only SMTPException swallowed (59-63), login, sendmail, the QUIT
\* sent when the with block is left, True (69); every exception of the session
\* ends in one of the except clauses (71-79)
send_email(scenario) ==
    LET settings == scenario.settings
        server == scenario.server
    IN IF ~(/\ settings.SMTP_HOST /\ settings.SMTP_USERNAME
            /\ settings.SMTP_PASSWORD /\ settings.SMTP_FROM_EMAIL)
       THEN MailResult(FALSE, FALSE, FALSE)
       ELSE IF server.connect # "ok" THEN MailResult(FALSE, TRUE, FALSE)
       ELSE IF server.starttls = "os_error" THEN MailResult(FALSE, TRUE, FALSE)
       ELSE IF server.login # "ok" THEN MailResult(FALSE, TRUE, FALSE)
       ELSE IF server.sendmail # "ok" THEN MailResult(FALSE, TRUE, FALSE)
       ELSE IF server.quit # "ok" THEN MailResult(FALSE, TRUE, TRUE)
       ELSE MailResult(TRUE, TRUE, TRUE)

\* lines 82-191: False without a notification address (92-94), else send_email
send_booking_notification(scenario) ==
    IF ~scenario.settings.NOTIFICATION_EMAIL
    THEN MailResult(FALSE, FALSE, FALSE)
    ELSE send_email(scenario)

\* what the call at routes.py 161 yields to its try/except: the value returned,
\* or "raise" for an exception raised all the same, which the except clause at
\* routes.py 162 provides for; no failure path of the sender itself raises
NotificationOutcome(scenario, raised) ==
    IF raised THEN "raise"
    ELSE IF send_booking_notification(scenario).ret THEN "true" ELSE "false"

---------------------------------------------------------------------------
(* routes.py: create_booking *)

\* create_booking_insert going on to the notification after a failed insert
create_booking_insert_unguarded(r) ==
    /\ Free(r)
    /\ Len(bookings) < MaxBookings
    /\ \E payload \in BookingPayloads, stored \in BOOLEAN :
          LET booking == BookingCreate(payload)
              booking_obj == Booking(booking, FreshId(bookings), now)
          IN /\ bookings' = IF stored THEN insert_one(bookings, booking_obj) ELSE bookings
             /\ Begin(r, "create_booking", "bk_notify", booking, booking_obj)
    /\ UNCHANGED <<admin_users, wallet, now, notify_log, busy>>

\* lines 155-157: construct and insert; the insert can fail with a storage error
create_booking_insert(r) ==
    /\ Free(r)
    /\ Len(bookings) < MaxBookings
    /\ \E payload \in BookingPayloads, stored \in BOOLEAN :
          LET booking == BookingCreate(payload)
              booking_obj == Booking(booking, FreshId(bookings), now)
          IN IF stored
             THEN /\ bookings' = insert_one(bookings, booking_obj)
                  /\ Begin(r, "create_booking", "bk_notify", booking, booking_obj)
             ELSE /\ bookings' = bookings
                  /\ Finish(r, "create_booking", booking,
                            HTTPException(500, "Internal Server Error"))
    /\ UNCHANGED <<admin_users, wallet, now, notify_log, busy>>

\* line 161: the call is synchronous, the event loop is held until it returns
create_booking_notify(r) ==
    /\ req[r].pc = "bk_notify" /\ busy = 0
    /\ busy' = r
    /\ \E scenario \in MailScenarios :
          req' = [req EXCEPT ![r] =
                     [op |-> "create_booking", pc |-> "bk_in_notify",
                      args |-> req[r].args, local |-> req[r].local,
                      resp |-> NoResp, mail |-> scenario]]
    /\ UNCHANGED <<admin_users, bookings, wallet, now, notify_log>>

\* create_booking_return without the try/except around the notification
create_booking_return_uncaught(r) ==
    /\ req[r].pc = "bk_in_notify" /\ busy = r
    /\ \E raised \in BOOLEAN :
          LET outcome == NotificationOutcome(req[r].mail, raised)
          IN req' = [req EXCEPT ![r] =
                        [op |-> "create_booking", pc |-> "done", args |-> req[r].args,
                         mail |-> req[r].mail,
                         local |-> [notification |-> outcome, logged_error |-> FALSE],
                         resp |-> IF outcome = "raise"
                                  THEN HTTPException(500, "Internal Server Error")
                                  ELSE Response(201, req[r].local)]]
    /\ notify_log' = notify_log \cup {req[r].local.id}
    /\ busy' = 0
    /\ UNCHANGED <<admin_users, bookings, wallet, now>>

\* lines 160-167: the outcome is logged at most, the enquiry is returned
create_booking_return(r) ==
    /\ req[r].pc = "bk_in_notify" /\ busy = r
    /\ \E raised \in BOOLEAN :
          LET outcome == NotificationOutcome(req[r].mail, raised)
          IN req' = [req EXCEPT ![r] =
                        [op |-> "create_booking", pc |-> "done", args |-> req[r].args,
                         mail |-> req[r].mail,
                         local |-> [notification |-> outcome,
                                    logged_error |-> (outcome = "raise")],
                         resp |-> Response(201, req[r].local)]]
    /\ notify_log' = notify_log \cup {req[r].local.id}
    /\ busy' = 0
    /\ UNCHANGED <<admin_users, bookings, wallet, now>>

---------------------------------------------------------------------------
(* routes.py: update_booking_status *)

StatusInputs == BookingStatuses \cup {"archived"}
BookingIds == 1..(MaxBookings + 1)

\* UpdateResult.modified_count of update_one: matched and actually changed
modified_count(coll, field, value, changes) ==
    IF update_one(coll, field, value, changes) = coll THEN 0 ELSE 1

\* update_booking_status_update with an empty filter: the first enquiry is written
update_booking_status_update_unfiltered(r) ==
    /\ Free(r)
    /\ \E booking_id \in BookingIds, status \in StatusInputs,
          authorization \in BearerTokens :
          LET args == [booking_id |-> booking_id, status |-> status,
                       authorization |-> authorization]
              changes == [status |-> status, updated_at |-> now]
              written == IF Len(bookings) = 0 THEN bookings
                         ELSE [bookings EXCEPT ![1] = changes @@ @]
          IN IF status \notin {"pending", "approved", "rejected"}
             THEN /\ bookings' = bookings
                  /\ Finish(r, "update_booking_status", args,
                            HTTPException(400, "Invalid status"))
             ELSE /\ bookings' = written
                  /\ IF modified_count(bookings, "id", booking_id, changes) = 0
                     THEN Finish(r, "update_booking_status", args,
                                 HTTPException(404, "Booking not found"))
                     ELSE Begin(r, "update_booking_status", "ubs_find", args, NoVal)
    /\ UNCHANGED <<admin_users, wallet, now, notify_log, busy>>

\* update_booking_status_update writing before the status is checked
update_booking_status_update_unchecked(r) ==
    /\ Free(r)
    /\ \E booking_id \in BookingIds, status \in StatusInputs,
          authorization \in BearerTokens :
          LET args == [booking_id |-> booking_id, status |-> status,
                       authorization |-> authorization]
              changes == [status |-> status, updated_at |-> now]
          IN /\ bookings' = update_one(bookings, "id", booking_id, changes)
             /\ IF status \notin {"pending", "approved", "rejected"}
                THEN Finish(r, "update_booking_status", args,
                            HTTPException(400, "Invalid status"))
                ELSE IF modified_count(bookings, "id", booking_id, changes) = 0
                THEN Finish(r, "update_booking_status", args,
                            HTTPException(404, "Booking not found"))
                ELSE Begin(r, "update_booking_status", "ubs_find", args, NoVal)
    /\ UNCHANGED <<admin_users, wallet, now, notify_log, busy>>

\* lines 177-189: the signature declares no token dependency, so the
\* Authorization header of the request is never read
update_booking_status_update(r) ==
    /\ Free(r)
    /\ \E booking_id \in BookingIds, status \in StatusInputs,
          authorization \in BearerTokens :
          LET args == [booking_id |-> booking_id, status |-> status,
                       authorization |-> authorization]
              changes == [status |-> status, updated_at |-> now]
          IN IF status \notin {"pending", "approved", "rejected"}
             THEN /\ bookings' = bookings
                  /\ Finish(r, "update_booking_status", args,
                            HTTPException(400, "Invalid status"))
             ELSE /\ bookings' = update_one(bookings, "id", booking_id, changes)
                  /\ IF modified_count(bookings, "id", booking_id, changes) = 0
                     THEN Finish(r, "update_booking_status", args,
                                 HTTPException(404, "Booking not found"))
                     ELSE Begin(r, "update_booking_status", "ubs_find", args, NoVal)
    /\ UNCHANGED <<admin_users, wallet, now, notify_log, busy>>

\* update_booking_status_find answering with the status the request wrote
update_booking_status_find_own_write(r) ==
    /\ req[r].pc = "ubs_find" /\ busy = 0
    /\ LET updated == find_one(bookings, "id", req[r].args.booking_id)
       IN Finish(r, "update_booking_status", req[r].args,
                 Response(200, [Booking(updated, 0, 0)
                                   EXCEPT !.status = req[r].args.status]))
    /\ UNCHANGED <<admin_users, bookings, wallet, now, notify_log, busy>>

\* lines 191-192: read back and answer
update_booking_status_find(r) ==
    /\ req[r].pc = "ubs_find" /\ busy = 0
    /\ LET updated == find_one(bookings, "id", req[r].args.booking_id)
       IN Finish(r, "update_booking_status", req[r].args,
                 Response(200, Booking(updated, 0, 0)))
    /\ UNCHANGED <<admin_users, bookings, wallet, now, notify_log, busy>>

---------------------------------------------------------------------------
(* The clock, the initial state, the specifications *)

Tick ==
    /\ now + TickMinutes <= MaxTicks * TickMinutes
    /\ now' = now + TickMinutes
    /\ UNCHANGED <<admin_users, bookings, req, wallet, notify_log, busy>>

\* an account that predates this process: deactivated by an administrator,
\* or a legacy document written without the is_active flag
SeedAccount ==
    [_id |-> 1, id |-> 1, username |-> "alice", email |-> "a@pan.org",
     hashed_password |-> get_password_hash("secret1", 1), full_name |-> "None",
     is_superuser |-> FALSE, created_at |-> 0]

InitStores ==
    {<<>>, <<SeedAccount @@ [is_active |-> FALSE]>>, <<SeedAccount>>}

Init ==
    /\ admin_users \in InitStores
    /\ bookings = <<>>
    /\ req = [r \in Reqs |-> Idle]
    /\ wallet = {}
    /\ now = 0
    /\ notify_log = {}
    /\ busy = 0

InitBooking == Init /\ admin_users = <<>>

AuthStart(r) ==
    \/ register_admin_find_username(r)
    \/ login(r)
    \/ get_current_user_info_auth(r)
    \/ logout_auth(r)
    \/ change_password_auth(r)

AuthStep(r) ==
    \/ register_admin_find_email(r)
    \/ register_admin_insert(r)
    \/ get_current_user_info(r)
    \/ logout(r)
    \/ change_password_find(r)
    \/ change_password_update(r)
    \/ respond(r)

BookingStart(r) ==
    \/ create_booking_insert(r)
    \/ update_booking_status_update(r)

BookingStep(r) ==
    \/ create_booking_notify(r)
    \/ create_booking_return(r)
    \/ update_booking_status_find(r)
    \/ respond(r)

Quiet == \A q \in Reqs : ~InFlight(q)

\* the authentication surface, requests one after another
NextAuthSeq ==
    \/ Quiet /\ AuthStart(1)
    \/ AuthStep(1)
    \/ Tick

SpecAuthSeq == Init /\ [][NextAuthSeq]_vars

\* the booking surface, requests one after another
NextBookingSeq ==
    \/ Quiet /\ BookingStart(1)
    \/ BookingStep(1)
    \/ Tick

SpecBookingSeq == InitBooking /\ [][NextBookingSeq]_vars

\* booking submissions handled concurrently by the one event loop
CreateBookingStep(r) ==
    \/ create_booking_insert(r)
    \/ create_booking_notify(r)
    \/ create_booking_return(r)
    \/ respond(r)

NextCreateBooking == \E r \in Reqs : CreateBookingStep(r)

SpecCreateBooking == InitBooking /\ [][NextCreateBooking]_vars

\* registrations, requests overlapping
NextRegister ==
    \E r \in Reqs :
        \/ register_admin_find_username(r)
        \/ register_admin_find_email(r)
        \/ register_admin_insert(r)
        \/ respond(r)

SpecRegister == Init /\ [][NextRegister]_vars

\* logins and password changes of one account handled concurrently
ChangePasswordStep(r) ==
    \/ login(r)
    \/ change_password_auth(r)
    \/ change_password_find(r)
    \/ change_password_update(r)
    \/ respond(r)

NextChangePassword == \E r \in Reqs : ChangePasswordStep(r)

InitChangePassword == Init /\ admin_users = <<SeedAccount>>

SpecChangePassword == InitChangePassword /\ [][NextChangePassword]_vars

\* status updates of a stored enquiry handled concurrently, all within one
\* reading of the clock
SeedBooking ==
    Booking(BookingCreate(CHOOSE payload \in BookingPayloads :
                             payload.name = "Ann"), 1, 0)

InitUpdateStatus ==
    /\ admin_users = <<>>
    /\ bookings = insert_one(<<>>, SeedBooking)
    /\ req = [r \in Reqs |-> Idle]
    /\ wallet = {}
    /\ now = 0
    /\ notify_log = {}
    /\ busy = 0

UpdateStatusStep(r) ==
    \/ update_booking_status_update(r)
    \/ update_booking_status_find(r)
    \/ respond(r)

NextUpdateStatus == \E r \in Reqs : UpdateStatusStep(r)

SpecUpdateStatus == InitUpdateStatus /\ [][NextUpdateStatus]_vars

---------------------------------------------------------------------------
(* Properties *)

Stepped(r) == req'[r] # req[r]

\* the document of the collection that carries these fields, _id aside
InStore(coll, obj) == \E i \in 1..Len(coll) : Pop(coll[i], "_id") = obj

Unauthorized == HTTPExceptionH(401, "Incorrect username or password", Bearer)

\* C1: a booking submission whose insert succeeded answers 201 with the persisted
\* enquiry, status pending, and leaves it in the store, whether the notification
\* returned true, returned false or raised: the answer is the inserted enquiry
\* and does not depend on the outcome.
C1_NotificationNeverChangesResponse ==
    [][\A r \in Reqs :
          (req[r].pc = "bk_in_notify" /\ InStore(bookings, req[r].local) /\ Stepped(r))
          => /\ req'[r].pc = "done"
             /\ req'[r].local.notification \in {"true", "false", "raise"}
             /\ req'[r].resp = Response(201, req[r].local)
             /\ req'[r].resp.body.status = "pending"
             /\ InStore(bookings', req'[r].resp.body)
             /\ bookings' = bookings]_vars

C1_Witness ==
    \E r \in Reqs :
        /\ req[r].op = "create_booking" /\ req[r].pc = "done"
        /\ req[r].resp.status = 201
        /\ req[r].local.notification = "raise"
        /\ InStore(bookings, req[r].resp.body)

\* C2: the notification is attempted only for an enquiry whose insert has completed;
\* a failed insert answers with a storage error, stores nothing and attempts no
\* notification.
C2_NotifyOnlyAfterPersist ==
    /\ [](/\ \A id \in notify_log : \E i \in 1..Len(bookings) : bookings[i].id = id
          /\ \A r \in Reqs : req[r].pc \in {"bk_notify", "bk_in_notify"}
                                => InStore(bookings, req[r].local)
          /\ busy # 0 => req[busy].pc = "bk_in_notify")
    /\ [][\A r \in Reqs :
            (req[r].pc = "idle" /\ req'[r].op = "create_booking")
            => /\ notify_log' = notify_log /\ busy' = 0
               /\ \/ /\ bookings' = bookings
                     /\ req'[r].pc = "done" /\ req'[r].resp.status = 500
                  \/ /\ Len(bookings') = Len(bookings) + 1
                     /\ req'[r].pc = "bk_notify"]_vars

C2_Witness ==
    \E r \in Reqs :
        /\ req[r].op = "create_booking" /\ req[r].pc = "done"
        /\ req[r].resp.status = 500
        /\ Len(bookings) = 1 /\ notify_log = {bookings[1].id}

\* C3: a login for a username that does not exist and a login with a wrong password
\* for one that exists (active or not) get the same answer, 401 "Incorrect
\* username or password" with the Bearer challenge, and no token.
C3_LoginEnumerationResistant ==
    \A r \in Reqs :
        (req[r].op = "login" /\ req[r].pc = "done")
        => LET user == find_one(admin_users, "username", req[r].args.username)
           IN (\/ ~Found(user)
               \/ ~verify_password(req[r].args.password, user.hashed_password))
              => /\ req[r].resp = Unauthorized
                 /\ "body" \notin DOMAIN req[r].resp

C3_Witness ==
    \E r \in Reqs :
        /\ req[r].op = "login" /\ req[r].pc = "done"
        /\ req[r].resp = Unauthorized
        /\ LET user == find_one(admin_users, "username", req[r].args.username)
           IN /\ Found(user)
              /\ ~Get(user, "is_active", TRUE)
              /\ ~verify_password(req[r].args.password, user.hashed_password)

\* C4: no response carries a password hash: neither the answer of a successful
\* registration nor the answer of /auth/me has a hashed_password field.
C4_HashNeverInResponse ==
    \A r \in Reqs :
        (req[r].pc = "done" /\ req[r].op \in {"register", "me"}
            /\ "body" \in DOMAIN req[r].resp)
        => "hashed_password" \notin DOMAIN req[r].resp.body

\* a request starts in slot r with this step
Starts(r, op) == req[r].pc = "idle" /\ req'[r].op = op

HasUsername(coll, username) == Found(find_one(coll, "username", username))
HasEmail(coll, email) == Found(find_one(coll, "email", email))

\* C5: with registrations one after another, registering a username the store
\* already holds answers 400 "Username already registered" and writes nothing,
\* also when the email is a duplicate too; a registration that reaches the insert
\* is the first of its username, answers 201 and adds exactly one account.
C5_DuplicateUsernameRejected ==
    [][\A r \in Reqs :
          /\ Starts(r, "register")
             => /\ admin_users' = admin_users
                /\ IF HasUsername(admin_users, req'[r].args.username)
                   THEN /\ req'[r].pc = "done"
                        /\ req'[r].resp = HTTPException(400, "Username already registered")
                   ELSE req'[r].pc = "reg_find_email"
          /\ (req[r].pc = "reg_insert" /\ Stepped(r))
             => /\ ~HasUsername(admin_users, req[r].args.username)
                /\ req'[r].pc = "done" /\ req'[r].resp.status = 201
                /\ Len(admin_users') = Len(admin_users) + 1
                /\ SubSeq(admin_users', 1, Len(admin_users)) = admin_users
                /\ admin_users'[Len(admin_users')].username = req[r].args.username
                /\ req'[r].resp.body.username = req[r].args.username]_vars

C5_Witness ==
    \E r \in Reqs :
        /\ req[r].op = "register" /\ req[r].pc = "done"
        /\ req[r].resp = HTTPException(400, "Username already registered")
        /\ HasEmail(admin_users, req[r].args.email)
        /\ \E i \in 1..Len(admin_users) :
              /\ admin_users[i].username = req[r].args.username
              /\ admin_users[i].created_at > 0

\* C6: with registrations one after another, a registration with a fresh username
\* and an email the store already holds answers 400 "Email already registered"
\* and writes nothing.
C6_DuplicateEmailRejected ==
    [][\A r \in Reqs :
          (req[r].pc = "reg_find_email" /\ Stepped(r))
          => /\ ~HasUsername(admin_users, req[r].args.username)
             /\ admin_users' = admin_users
             /\ IF HasEmail(admin_users, req[r].args.email)
                THEN /\ req'[r].pc = "done"
                     /\ req'[r].resp = HTTPException(400, "Email already registered")
                ELSE req'[r].pc = "reg_insert"]_vars

C6_Witness ==
    \E r \in Reqs :
        /\ req[r].op = "register" /\ req[r].pc = "done"
        /\ req[r].resp = HTTPException(400, "Email already registered")
        /\ ~HasUsername(admin_users, req[r].args.username)
        /\ HasEmail(admin_users, req[r].args.email)

\* C7: with requests one after another, no two stored accounts share a username
\* and no two share an email.
C7_UsernameAndEmailUnique ==
    \A i, j \in 1..Len(admin_users) :
        i # j => /\ admin_users[i].username # admin_users[j].username
                 /\ admin_users[i].email # admin_users[j].email

C7_Witness ==
    /\ Len(admin_users) = 2
    /\ \E r \in Reqs : /\ req[r].op = "register" /\ req[r].pc = "done"
                       /\ req[r].resp.status = 201

\* C8: a registration that has passed both existence checks inserts and answers 201
\* whatever the store holds by then, so two overlapping registrations of one
\* username can both pass the checks, both answer 201 and leave two accounts
\* with that username.
C8_InsertAfterChecksAlwaysSucceeds ==
    [][\A r \in Reqs :
          (req[r].pc = "reg_insert" /\ Stepped(r))
          => /\ req'[r].pc = "done" /\ req'[r].resp.status = 201
             /\ Len(admin_users') = Len(admin_users) + 1
             /\ admin_users'[Len(admin_users')].username = req[r].args.username]_vars

C8_Witness ==
    \E r1, r2 \in Reqs :
        /\ r1 # r2
        /\ \A r \in {r1, r2} : /\ req[r].op = "register" /\ req[r].pc = "done"
                               /\ req[r].resp.status = 201
        /\ req[r1].args.username = req[r2].args.username
        /\ Len(admin_users) = 2
        /\ admin_users[1].username = admin_users[2].username
        /\ admin_users[1].username = req[r1].args.username

\* C9: a rejected password change writes nothing, and the checks come in this
\* order: wrong current password, new password shorter than 6, new password equal
\* to the current one; each answers 400.
C9_RejectedChangeKeepsHash ==
    [][\A r \in Reqs :
          /\ (req'[r].op = "change_password" /\ Stepped(r) /\ req[r].pc # "cp_update")
             => admin_users' = admin_users
          /\ (req[r].pc = "cp_update" /\ Stepped(r)) => req'[r].resp.status = 200
          /\ (req[r].pc = "cp_find" /\ Stepped(r))
             => LET user == find_one(admin_users, "username", req[r].local.username)
                    current == req[r].args.current_password
                    new == req[r].args.new_password
                    Rejected(detail) == /\ req'[r].pc = "done"
                                        /\ req'[r].resp = HTTPException(400, detail)
                IN /\ Found(user)
                   /\ IF ~verify_password(current, user.hashed_password)
                      THEN Rejected("Current password is incorrect")
                      ELSE IF Len(new) < MIN_PASSWORD_LENGTH
                      THEN Rejected("New password must be at least 6 characters long")
                      ELSE IF current = new
                      THEN Rejected("New password must be different from current password")
                      ELSE req'[r].pc = "cp_update"]_vars

C9_Witness ==
    \E r \in Reqs :
        /\ req[r].op = "change_password" /\ req[r].pc = "done"
        /\ req[r].resp = HTTPException(400, "Current password is incorrect")
        /\ Len(req[r].args.new_password) < MIN_PASSWORD_LENGTH

\* C10: right after a password change from A to B succeeded, a login of that
\* account with B succeeds, a login with A answers 401, and a further password
\* change is accepted as to its current password only when it presents B.
C10_ChangedPasswordTakesEffect ==
    \A r \in Reqs :
        (req[r].op = "change_password" /\ req[r].pc = "done" /\ req[r].resp.status = 200)
        => LET name == req[r].args.token.sub
               A == req[r].args.current_password
               B == req[r].args.new_password
               user == find_one(admin_users, "username", name)
               Incorrect == HTTPException(400, "Current password is incorrect")
           IN /\ Found(user)
              /\ A # B
              /\ login_response([username |-> name, password |-> B],
                                admin_users, now).status = 200
              /\ login_response([username |-> name, password |-> A],
                                admin_users, now) = Unauthorized
              /\ \A P, N \in Passwords :
                    (change_password_check([current_password |-> P, new_password |-> N],
                                           user) = Incorrect) <=> (P # B)

C10_Witness ==
    \E r \in Reqs :
        /\ req[r].op = "change_password" /\ req[r].pc = "done"
        /\ req[r].resp.status = 200
        /\ req[r].args.current_password = "secret2"
        /\ req[r].args.new_password = "secret1"


\* C11: login answers 400 "Inactive user" exactly when the account exists, the
\* password verifies and the active flag is false, and then issues no token; it
\* answers with a token exactly when the account exists, the password verifies and
\* the account is active, a record without the flag counting as active.
C11_InactiveExactly ==
    \A r \in Reqs :
        (req[r].op = "login" /\ req[r].pc = "done")
        => LET user == find_one(admin_users, "username", req[r].args.username)
               verified == /\ Found(user)
                           /\ verify_password(req[r].args.password, user.hashed_password)
               active == IF "is_active" \in DOMAIN user THEN user.is_active ELSE TRUE
           IN /\ (req[r].resp = HTTPException(400, "Inactive user"))
                    <=> (verified /\ ~active)
              /\ (req[r].resp.status = 200) <=> (verified /\ active)
              /\ (req[r].resp.status = 200)
                    <=> /\ "body" \in DOMAIN req[r].resp
                        /\ req[r].resp.body.token_type = "bearer"
                        /\ req[r].resp.body.access_token.sig = "server"
              /\ req[r].resp.status \in {200, 400, 401}

C11_Witness ==
    \E r \in Reqs :
        /\ req[r].op = "login" /\ req[r].pc = "done"
        /\ req[r].resp = HTTPException(400, "Inactive user")
        /\ wallet = {}

\* a record without the flag logs in
C11_LegacyWitness ==
    \E r \in Reqs :
        /\ req[r].op = "login" /\ req[r].pc = "done" /\ req[r].resp.status = 200
        /\ "is_active" \notin DOMAIN find_one(admin_users, "username", req[r].args.username)

Protected == {"me", "logout", "change_password"}

\* C12: a token issued by login at time t carries the username and id of the account
\* and expires at t + 24 hours; a protected route accepts it at every time before
\* that and answers 401 at every time from then on.
C12_TokenLifetime ==
    [][\A r \in Reqs :
          /\ (Starts(r, "login") /\ req'[r].resp.status = 200)
             => LET tok == req'[r].resp.body.access_token
                    user == find_one(admin_users, "username", req'[r].args.username)
                IN /\ tok.sub = req'[r].args.username
                   /\ tok.user_id = user.id
                   /\ tok.exp = now + 24 * 60
                   /\ wallet' \subseteq wallet \cup {tok}
          /\ (req[r].pc = "idle" /\ req'[r].op \in Protected
                /\ req'[r].args.token \in wallet)
             => IF now < req'[r].args.token.exp
                THEN req'[r].pc # "done"
                ELSE /\ req'[r].pc = "done"
                     /\ req'[r].resp.status = 401
                     /\ req'[r].resp.headers = Bearer]_vars

C12_Witness ==
    \E r \in Reqs :
        /\ req[r].op \in Protected /\ req[r].pc = "done"
        /\ req[r].args.token \in wallet
        /\ req[r].resp.status = 401
        /\ now = req[r].args.token.exp

\* a token is accepted on the last tick before its expiry
C12_AcceptedWitness ==
    \E r \in Reqs :
        /\ req[r].op = "me" /\ req[r].pc = "done" /\ req[r].resp.status = 200
        /\ now > 0 /\ now < req[r].args.token.exp

\* C13: only expiry invalidates a token: logout writes nothing, and every token a
\* client holds is accepted by the gate as long as it has not expired, also after
\* a logout or a password change of its subject.
C13_OnlyExpiryInvalidates ==
    /\ [](\A tok \in wallet :
             now < tok.exp => get_current_user(tok, admin_users, now).ok)
    /\ [][\A r \in Reqs :
            (req'[r].op = "logout" /\ Stepped(r))
            => /\ admin_users' = admin_users /\ bookings' = bookings
               /\ wallet' = wallet /\ notify_log' = notify_log]_vars

C13_Witness ==
    \E r \in Reqs :
        /\ req[r].op = "logout" /\ req[r].pc = "done" /\ req[r].resp.status = 200
        /\ req[r].args.token \in wallet
        /\ now > 0 /\ now < req[r].args.token.exp
        /\ get_current_user(req[r].args.token, admin_users, now).ok
        /\ \E i \in 1..Len(admin_users) :
              /\ admin_users[i].username = req[r].args.token.sub
              /\ verify_password("secret2", admin_users[i].hashed_password)


HasId(booking_id) == \E i \in 1..Len(bookings) : bookings[i].id = booking_id

\* C14: a status update whose status value is outside {pending, approved, rejected}
\* answers 400 and leaves the store unchanged, whether or not an enquiry with the
\* given id exists.
C14_InvalidStatusRejected ==
    [][\A r \in Reqs :
          (Starts(r, "update_booking_status")
              /\ req'[r].args.status \notin {"pending", "approved", "rejected"})
          => /\ req'[r].pc = "done"
             /\ req'[r].resp = HTTPException(400, "Invalid status")
             /\ bookings' = bookings /\ admin_users' = admin_users]_vars

C14_Witness ==
    \E r \in Reqs :
        /\ req[r].op = "update_booking_status" /\ req[r].pc = "done"
        /\ req[r].args.status = "archived"
        /\ req[r].resp.status = 400
        /\ HasId(req[r].args.booking_id)

\* C15: a status update with a valid status value answers 404 exactly when no
\* enquiry has the given id, and for an existing enquiry it goes on to answer 200
\* with the stored status equal to the requested one, also when the enquiry already
\* has that status.
C15_NotFoundExactly ==
    [][\A r \in Reqs :
          (Starts(r, "update_booking_status")
              /\ req'[r].args.status \in {"pending", "approved", "rejected"})
          => IF HasId(req'[r].args.booking_id)
             THEN /\ req'[r].pc = "ubs_find"
                  /\ find_one(bookings', "id", req'[r].args.booking_id).status
                        = req'[r].args.status
             ELSE /\ req'[r].pc = "done"
                  /\ req'[r].resp = HTTPException(404, "Booking not found")]_vars

\* an existing enquiry is answered 404
C15_ExistingNotFound ==
    \E r \in Reqs :
        /\ req[r].op = "update_booking_status" /\ req[r].pc = "done"
        /\ req[r].resp.status = 404
        /\ HasId(req[r].args.booking_id)

\* C16: every stored enquiry has a status in {pending, approved, rejected}, and a
\* newly submitted enquiry is stored with status pending whatever fields the
\* submitter supplies.
C16_StatusEnumerated ==
    /\ [](\A i \in 1..Len(bookings) :
             bookings[i].status \in {"pending", "approved", "rejected"})
    /\ [][Len(bookings') > Len(bookings)
          => /\ Len(bookings') = Len(bookings) + 1
             /\ bookings'[Len(bookings')].status = "pending"
             /\ \E r \in Reqs : Starts(r, "create_booking")]_vars

C16_Witness ==
    /\ Len(bookings) = 2
    /\ bookings[1].status = "rejected"
    /\ bookings[2].status = "pending"
    /\ bookings[2].name = "Jan"

\* C17: the status of a stored enquiry changes only in a step of a status-update
\* request that carries a valid bearer token.
C17_StatusChangeNeedsToken ==
    [][\A i \in 1..Len(bookings) :
          bookings'[i].status # bookings[i].status
          => \E r \in Reqs :
                /\ Starts(r, "update_booking_status")
                /\ TokenValid(req'[r].args.authorization, now)]_vars

\* a request without a token has changed a status
C17_Unauthenticated ==
    \E r \in Reqs :
        /\ req[r].op = "update_booking_status" /\ req[r].pc = "done"
        /\ req[r].args.authorization = NoToken
        /\ req[r].resp.status = 200
        /\ req[r].resp.body.status = "approved"


\* C18: the notification call of a booking submission is a suspension point: while
\* one request is inside it, the pending step of every other request can be taken.
C18_NotificationYields ==
    \A r \in Reqs, q \in Reqs :
        (r # q /\ req[r].pc = "bk_in_notify")
        => /\ req[q].pc = "bk_notify" => ENABLED create_booking_notify(q)
           /\ req[q].pc = "done" => ENABLED respond(q)
           /\ (req[q].pc = "idle" /\ Len(bookings) < MaxBookings)
                 => ENABLED create_booking_insert(q)

\* a request waits behind another request's notification call
C18_Blocked ==
    \E r \in Reqs, q \in Reqs :
        /\ r # q /\ req[r].pc = "bk_in_notify" /\ busy = r
        /\ req[q].pc = "bk_notify"
        /\ ~ENABLED CreateBookingStep(q)


\* the notification calls made or being made, with their mail environment
NotificationCalls ==
    {r \in Reqs : req[r].op = "create_booking" /\ "mail" \in DOMAIN req[r]}

RequiredSettings ==
    {"NOTIFICATION_EMAIL", "SMTP_HOST", "SMTP_USERNAME", "SMTP_PASSWORD",
     "SMTP_FROM_EMAIL"}

\* the contract of the sender apart from STARTTLS: a boolean for every
\* environment; false with no connection attempt when a required setting is
\* missing; false on a connection, authentication or send failure; true only
\* when the message was handed over
SenderContract(scenario) ==
    LET result == send_booking_notification(scenario)
        settings == scenario.settings
        server == scenario.server
    IN /\ result.ret \in BOOLEAN
       /\ (\E n \in RequiredSettings : ~settings[n])
             => (~result.ret /\ ~result.connected)
       /\ (\A n \in RequiredSettings : settings[n]) => result.connected
       /\ (server.connect # "ok" \/ server.login # "ok" \/ server.sendmail # "ok")
             => (~result.ret /\ ~result.handed_over)
       /\ result.ret => result.handed_over

OnlyStarttlsFails(scenario) ==
    /\ \A n \in RequiredSettings : scenario.settings[n]
    /\ scenario.server.starttls # "ok"
    /\ scenario.server.connect = "ok" /\ scenario.server.login = "ok"
    /\ scenario.server.sendmail = "ok" /\ scenario.server.quit = "ok"

\* what the handler sees of a finished call is the value the sender returned
ReportsSender(r) ==
    req[r].pc = "done"
    => \/ req[r].local.notification = "raise"
       \/ req[r].local.notification
             = IF send_booking_notification(req[r].mail).ret THEN "true" ELSE "false"

\* C19 (as stated): the sender returns a boolean and raises nothing; false with no
\* connection attempt when the notification address or an SMTP setting is missing,
\* false on a connection, authentication or send failure, true only when the
\* message was handed over; a failed STARTTLS alone does not abort the send.
C19_FailedStarttlsNeverAborts ==
    \A r \in NotificationCalls :
        /\ SenderContract(req[r].mail)
        /\ ReportsSender(r)
        /\ OnlyStarttlsFails(req[r].mail)
              => send_booking_notification(req[r].mail).ret

\* C19 (amended): as above, but a failed STARTTLS alone does not abort the send
\* only when it fails with an SMTP error (the server does not offer it or refuses
\* it); a STARTTLS failing with any other error, such as a TLS handshake error,
\* aborts the send and the sender returns false. A missing SMTP port is not a
\* missing setting: it defaults to 25 and the send goes on.
C19_SmtpStarttlsFailureTolerated ==
    \A r \in NotificationCalls :
        /\ SenderContract(req[r].mail)
        /\ ReportsSender(r)
        /\ OnlyStarttlsFails(req[r].mail)
              => (send_booking_notification(req[r].mail).ret
                     <=> req[r].mail.server.starttls = "smtp_error")
        /\ (~req[r].mail.settings.SMTP_PORT)
              => send_booking_notification(req[r].mail).ret

C19_Witness ==
    \E r \in NotificationCalls :
        /\ req[r].pc = "done" /\ req[r].resp.status = 201
        /\ OnlyStarttlsFails(req[r].mail)
        /\ req[r].mail.server.starttls = "os_error"
        /\ req[r].local.notification = "false"

\* a STARTTLS the server does not offer is skipped and the message is sent
C19_PlainWitness ==
    \E r \in NotificationCalls :
        /\ req[r].pc = "done"
        /\ OnlyStarttlsFails(req[r].mail)
        /\ req[r].mail.server.starttls = "smtp_error"
        /\ req[r].local.notification = "true"


\* the two flags of a stored account, "unset" for a record without the field
Flag(account, name) ==
    IF name \notin DOMAIN account THEN "unset"
    ELSE IF account[name] THEN "true" ELSE "false"

Flags(account) ==
    [is_active |-> Flag(account, "is_active"),
     is_superuser |-> Flag(account, "is_superuser")]

\* C20: every account stored by a registration has active = true and
\* superuser = false whatever the request carries, and no step of register,
\* login, me, logout or change-password changes either flag of a stored account.
C20_FlagsFixedAtRegistration ==
    [][/\ Len(admin_users') >= Len(admin_users)
       /\ \A i \in 1..Len(admin_users) :
             /\ Flags(admin_users'[i]) = Flags(admin_users[i])
             /\ admin_users'[i].id = admin_users[i].id
       /\ Len(admin_users') > Len(admin_users)
             => /\ Len(admin_users') = Len(admin_users) + 1
                /\ Flags(admin_users'[Len(admin_users')])
                      = [is_active |-> "true", is_superuser |-> "false"]
                /\ \E r \in Reqs : req'[r].op = "register" /\ Stepped(r)]_vars

C20_Witness ==
    \E r \in Reqs :
        /\ req[r].op = "register" /\ req[r].pc = "done" /\ req[r].resp.status = 201
        /\ req[r].args.username = "bob"
        /\ Len(admin_users) = 2
        /\ Flags(admin_users[1]).is_active = "false"
        /\ Flags(admin_users[2]) = [is_active |-> "true", is_superuser |-> "false"]


\* the request r ends a change-password of the account named username with 200
ChangesPasswordOf(r, username) ==
    /\ req[r].op = "change_password" /\ req[r].pc = "cp_update"
    /\ req[r].local.username = username
    /\ req'[r].pc = "done" /\ req'[r].resp.status = 200

\* C21: the stored hash of an account changes only in the step that ends a
\* successful change-password of that account; register, login, me, logout and
\* every rejected change-password leave all hashes as they are, a successful
\* change-password leaves the hashes of the other accounts as they are, and no
\* step removes an account or changes its id, username or email.
C21_HashChangesOnlyByOwnPasswordChange ==
    [][/\ Len(admin_users') >= Len(admin_users)
       /\ \A i \in 1..Len(admin_users) :
             /\ admin_users'[i].id = admin_users[i].id
             /\ admin_users'[i].username = admin_users[i].username
             /\ admin_users'[i].email = admin_users[i].email
             /\ admin_users'[i].hashed_password # admin_users[i].hashed_password
                   => \E r \in Reqs : ChangesPasswordOf(r, admin_users[i].username)
       /\ \A r \in Reqs :
             (req[r].op = "change_password" /\ Stepped(r)
                 /\ req'[r].pc = "done" /\ req'[r].resp.status # 200)
             => admin_users' = admin_users
       /\ \A r \in Reqs :
             (Stepped(r) /\ req'[r].op \in {"register", "login", "me", "logout"})
             => \A i \in 1..Len(admin_users) :
                   admin_users'[i] = admin_users[i]]_vars

C21_Witness ==
    \E r \in Reqs :
        /\ req[r].op = "change_password" /\ req[r].pc = "done"
        /\ req[r].resp.status = 200
        /\ Len(admin_users) = 2
        /\ admin_users[2].username = req[r].args.token.sub
        /\ verify_password(req[r].args.new_password, admin_users[2].hashed_password)
        /\ verify_password("secret1", admin_users[1].hashed_password)


\* an enquiry without its status and update timestamp
Unstamped(booking) == Pop(Pop(booking, "status"), "updated_at")

\* C22: a successful status update changes only the status and the update
\* timestamp of the enquiry with the given id; that enquiry's other fields and
\* every other enquiry are unchanged, and no step of the booking surface removes
\* an enquiry.
C22_StatusUpdateFrame ==
    [][/\ Len(bookings') >= Len(bookings)
       /\ \A i \in 1..Len(bookings) :
             bookings'[i] # bookings[i]
             => /\ Unstamped(bookings'[i]) = Unstamped(bookings[i])
                /\ \E r \in Reqs :
                      /\ Starts(r, "update_booking_status")
                      /\ req'[r].pc = "ubs_find"
                      /\ req'[r].args.booking_id = bookings[i].id
                      /\ bookings'[i].status = req'[r].args.status
                      /\ bookings'[i].updated_at = now]_vars

C22_Witness ==
    \E r \in Reqs :
        /\ req[r].op = "update_booking_status" /\ req[r].pc = "done"
        /\ req[r].resp.status = 200
        /\ req[r].args.booking_id = 2
        /\ Len(bookings) = 2
        /\ bookings[2].status = "approved" /\ bookings[2].updated_at > bookings[2].created_at
        /\ bookings[1].status = "pending" /\ "updated_at" \notin DOMAIN bookings[1]


StoredHash(username) == find_one(admin_users, "username", username).hashed_password

\* C23: password change is check-then-act with no conflict detection: a request
\* whose checks passed writes and answers success whatever the stored hash has
\* become meanwhile, and after its write the stored hash is that of its own new
\* password; so of two overlapping successful changes the last write stays and
\* the other acknowledged password does not log in.
C23_LastWriterWins ==
    [][\A r \in Reqs :
          (req[r].op = "change_password" /\ req[r].pc = "cp_update" /\ Stepped(r))
          => /\ req'[r].pc = "done"
             /\ req'[r].resp = Response(200, [message |-> "Password changed successfully"])
             /\ LET user == find_one(admin_users', "username", req[r].local.username)
                IN /\ verify_password(req[r].args.new_password, user.hashed_password)
                   /\ \A q \in Reqs \ {r} :
                         (req[q].op = "change_password" /\ req[q].pc = "done"
                             /\ req[q].resp.status = 200
                             /\ req[q].args.new_password # req[r].args.new_password)
                         => login_response([username |-> user.username,
                                            password |-> req[q].args.new_password],
                                           admin_users', now).status = 401]_vars

C23_Witness ==
    \E r \in Reqs, q \in Reqs :
        /\ r # q
        /\ req[r].op = "change_password" /\ req[r].pc = "done" /\ req[r].resp.status = 200
        /\ req[q].op = "change_password" /\ req[q].pc = "done" /\ req[q].resp.status = 200
        /\ req[r].args.token.sub = req[q].args.token.sub
        /\ req[r].args.current_password = req[q].args.current_password
        /\ req[r].args.new_password # req[q].args.new_password
        /\ verify_password(req[r].args.new_password, StoredHash(req[r].args.token.sub))
        /\ login_response([username |-> req[q].args.token.sub,
                           password |-> req[q].args.new_password],
                          admin_users, now).status = 401


\* C24: the enquiry a status update returns is the one read back from the store
\* when the read runs, not the one the request wrote: the answer carries the
\* status stored at that moment, which is that of the last write, and so can
\* differ from the status the request asked for when two updates overlap.
C24_AnswerIsReadBack ==
    [][\A r \in Reqs :
          /\ (req[r].pc = "ubs_find" /\ Stepped(r))
             => LET stored == find_one(bookings, "id", req[r].args.booking_id)
                IN /\ req'[r].pc = "done" /\ req'[r].resp.status = 200
                   /\ req'[r].resp.body.status = stored.status
                   /\ req'[r].resp.body.id = req[r].args.booking_id
                   /\ bookings' = bookings
          /\ (Starts(r, "update_booking_status") /\ req'[r].pc = "ubs_find")
             => find_one(bookings', "id", req'[r].args.booking_id).status
                   = req'[r].args.status]_vars

C24_Witness ==
    \E r \in Reqs, q \in Reqs :
        /\ r # q
        /\ req[r].op = "update_booking_status" /\ req[r].pc = "done"
        /\ req[r].resp.status = 200
        /\ req[r].resp.body.status # req[r].args.status
        /\ req[q].op = "update_booking_status" /\ req[q].pc \in {"ubs_find", "done"}
        /\ req[q].args.booking_id = req[r].args.booking_id
        /\ req[q].args.status = req[r].resp.body.status
        /\ find_one(bookings, "id", req[r].args.booking_id).status = req[q].args.status

====
